---- MODULE Spec2Model ----
(***************************************************************************)
(* Generic-netlink client codec of streetpass-experiments:                 *)
(*   src/src/controller.rs  typed attribute wrappers, record parser,       *)
(*                          ControlMessage (de)serialization               *)
(*   src/src/nl80211.rs     Nl80221Family / Nl80221TaggedMessage           *)
(*   src/src/genl.rs        Attribute / GenericMessage emitter             *)
(*   src/src/main.rs        StreetpassService / StreetpassTag codec        *)
(* Byte buffers are sequences of 0..255.  A fallible operation returns     *)
(* Ok(v), Err(..) (a DecodeError) or Panic (an index out of range, an      *)
(* unimplemented!() abort).                                                *)
(***************************************************************************)
EXTENDS Integers, Sequences, FiniteSets, TLC

VARIABLES
    bigEndian,  \* byte order of the build target (NativeEndian)
    pc,         \* position of the driver / harness
    buffer,     \* the byte buffer being built, emitted into or parsed
    result,     \* result of the last parse / deserialize / emit
    rec,        \* record type under parse: NewFamily, Operation, MulticastGroup
    order,      \* order in which the record's own attributes are laid out
    cursor,     \* next position of order
    items,      \* the attributes laid out in buffer so far (what was encoded)
    tail,       \* kind of trailing fragment appended after the attributes
    state,      \* family resolution: Unresolved / Resolved
    family,     \* the Nl80221Family held by the caller, or None
    inbox,      \* last response handed to deserialize, or None
    accepted,   \* the response that resolved the family, or None
    received,   \* number of responses processed
    sent,       \* requests serialized so far
    subject     \* the attribute (typed wrapper or genl Attribute) under emit

vars == <<bigEndian, pc, buffer, result, rec, order, cursor, items, tail,
          state, family, inbox, accepted, received, sent, subject>>

(***************************************************************************)
(* Results and options.                                                    *)
(***************************************************************************)
None == [some |-> FALSE]
Some(v) == [some |-> TRUE, val |-> v]

Ok(v) == [tag |-> "Ok", val |-> v]
\* DecodeError: class is the fixed text of the message, num / name / in the
\* values formatted into it.
Err(class, num, name, in) ==
    [tag |-> "Err", class |-> class, num |-> num, name |-> name, in |-> in]
Panic == [tag |-> "Panic"]

IsOk(r) == r.tag = "Ok"
IsErr(r) == r.tag = "Err"
IsPanic(r) == r.tag = "Panic"

(***************************************************************************)
(* Bytes and slices.                                                       *)
(***************************************************************************)
ByteRange == 256
U16Range == 65536

Byte == 0 .. (ByteRange - 1)

InRange(b, from, to) == from <= to /\ to <= Len(b)

\* &b[from..to] (0-based, half open); the caller has checked InRange.
Slice(b, from, to) == SubSeq(b, from + 1, to)

Repeat(x, n) == [i \in 1 .. n |-> x]

RECURSIVE Concat(_)
Concat(ss) == IF ss = <<>> THEN <<>> ELSE Head(ss) \o Concat(Tail(ss))

\* buffer[at .. at + Len(bytes)] = bytes, the rest unchanged.
Overwrite(b, at, bytes) ==
    [i \in 1 .. Len(b) |->
        IF i > at /\ i <= at + Len(bytes) THEN bytes[i - at] ELSE b[i]]

(***************************************************************************)
(* byteorder::NativeEndian as the code uses it.                            *)
(***************************************************************************)
\* A u16 is a number.  A u32 or u64 is kept as its bytes, least significant
\* first (TLC's integers stop at 2^31 - 1), so every value of
\* the width, 0xFFFFFFFF included, is a value of the model.
Digits(n, width) == [i \in 1 .. width |-> (n \div (ByteRange ^ (i - 1))) % ByteRange]

RECURSIVE Number(_)
Number(digits) ==
    IF digits = <<>> THEN 0 ELSE Head(digits) + ByteRange * Number(Tail(digits))

U32(n) == Digits(n, 4)
U32Max == <<255, 255, 255, 255>>

Reverse(s) == [i \in 1 .. Len(s) |-> s[Len(s) + 1 - i]]

\* Memory order of an integer's bytes on the build target, and back.
NativeOrder(digits) == IF bigEndian THEN Reverse(digits) ELSE digits

\* The bytes NativeEndian::write_u16 / write_u32 / write_u64 store (the
\* last two share write_u32: the bytes of the value in memory order).
write_u16(v) == NativeOrder(Digits(v, 2))
write_u32(v) == NativeOrder(v)

\* NativeEndian::read_u16 / read_u32 of exactly 2 / 4 bytes.
read_u16(b) == Number(NativeOrder(b))
read_u32(b) == NativeOrder(b)

(***************************************************************************)
(* netlink_packet_utils::nla as called from controller.rs and nl80211.rs.  *)
(***************************************************************************)
NLA_HEADER_SIZE == 4
NLA_ALIGNTO == 4
\* 0x4000; NLA_TYPE_MASK clears it and NLA_F_NESTED (0x8000).
NLA_F_NET_BYTEORDER == 16384

\* nla_align!(len)
nla_align(len) == ((len + NLA_ALIGNTO - 1) \div NLA_ALIGNTO) * NLA_ALIGNTO

\* NlaBuffer::length(): the u16 at bytes 0..2.
nla_length(b) == read_u16(Slice(b, 0, 2))

\* NlaBuffer::kind(): the u16 at bytes 2..4 without the two flag bits.
nla_kind(b) == read_u16(Slice(b, 2, 4)) % NLA_F_NET_BYTEORDER

\* NlaBuffer::value(): bytes 4..length.
nla_value(b) ==
    IF InRange(b, NLA_HEADER_SIZE, nla_length(b))
    THEN Ok(Slice(b, NLA_HEADER_SIZE, nla_length(b)))
    ELSE Panic

\* Mutant of NlaBufferNewChecked: the declared length is not compared with
\* the bytes that remain.
NlaBufferNewCheckedHeaderOnly(b) ==
    IF Len(b) < NLA_HEADER_SIZE
    THEN Err("invalid NLA buffer: buffer shorter than an NLA header", Len(b), "", "")
    ELSE Ok(b)

\* NlaBuffer::new_checked(b): check_buffer_length in the order the library
\* tests it; the header is read only once four bytes are known to exist.
NlaBufferNewChecked(b) ==
    IF Len(b) < NLA_HEADER_SIZE
    THEN Err("invalid NLA buffer: buffer shorter than an NLA header", Len(b), "", "")
    ELSE IF Len(b) < nla_length(b)
    THEN Err("invalid NLA buffer: NLA longer than buffer", nla_length(b), "", "")
    ELSE IF nla_length(b) < NLA_HEADER_SIZE
    THEN Err("invalid NLA buffer: NLA has invalid length", nla_length(b), "", "")
    ELSE Ok(b)

\* The two truncation errors of the attribute iterator.
IsTruncation(r) ==
    /\ IsErr(r)
    /\ r.class \in {"invalid NLA buffer: buffer shorter than an NLA header",
                    "invalid NLA buffer: NLA longer than buffer"}

\* NlasIterator: the items yielded from `position` on.  Each item is
\* Ok(attribute bytes) or Err; nothing is yielded after an Err.
RECURSIVE NlasIterator(_, _)
NlasIterator(b, position) ==
    IF position >= Len(b)
    THEN <<>>
    ELSE LET nla == NlaBufferNewChecked(Slice(b, position, Len(b)))
         IN  IF IsOk(nla)
             THEN <<nla>> \o NlasIterator(b, position + nla_align(nla_length(nla.val)))
             ELSE <<nla>>

\* <T: Nla as Emitable>::buffer_len()
NlaBufferLen(valueLen) == nla_align(valueLen) + NLA_HEADER_SIZE

\* <T: Nla as Emitable>::emit(buffer): kind, length = value_len + 4, the
\* value as written by emit_value, then zeroed padding.
NlaEmit(kind, value, buf) ==
    IF Len(buf) < NLA_HEADER_SIZE + nla_align(Len(value))
    THEN Panic
    ELSE Ok(Overwrite(buf, 0,
                write_u16((Len(value) + NLA_HEADER_SIZE) % U16Range)
                \o write_u16(kind)
                \o value
                \o Repeat(0, nla_align(Len(value)) - Len(value))))

(***************************************************************************)
(* netlink_packet_utils::parsers                                           *)
(***************************************************************************)
\* parsers::parse_u16
parse_u16(payload) ==
    IF Len(payload) # 2 THEN Err("invalid u16", Len(payload), "", "")
    ELSE Ok(read_u16(payload))

\* parsers::parse_u32
parse_u32(payload) ==
    IF Len(payload) # 4 THEN Err("invalid u32", Len(payload), "", "")
    ELSE Ok(read_u32(payload))

\* Number of bytes of the UTF-8 scalar starting at b[1], 0 if b does not
\* start with a well-formed one (String::from_utf8).
Utf8Step(b) ==
    LET n == Len(b)
        c(i) == i <= n /\ b[i] >= 128 /\ b[i] <= 191
        within(i, lo, hi) == i <= n /\ b[i] >= lo /\ b[i] <= hi
        h == b[1]
    IN  IF h < 128 THEN 1
        ELSE IF h >= 194 /\ h <= 223 THEN (IF c(2) THEN 2 ELSE 0)
        ELSE IF h = 224 THEN (IF within(2, 160, 191) /\ c(3) THEN 3 ELSE 0)
        ELSE IF (h >= 225 /\ h <= 236) \/ h = 238 \/ h = 239
             THEN (IF c(2) /\ c(3) THEN 3 ELSE 0)
        ELSE IF h = 237 THEN (IF within(2, 128, 159) /\ c(3) THEN 3 ELSE 0)
        ELSE IF h = 240 THEN (IF within(2, 144, 191) /\ c(3) /\ c(4) THEN 4 ELSE 0)
        ELSE IF h >= 241 /\ h <= 243 THEN (IF c(2) /\ c(3) /\ c(4) THEN 4 ELSE 0)
        ELSE IF h = 244 THEN (IF within(2, 128, 143) /\ c(3) /\ c(4) THEN 4 ELSE 0)
        ELSE 0

RECURSIVE IsUtf8(_)
IsUtf8(b) ==
    IF b = <<>> THEN TRUE
    ELSE LET k == Utf8Step(b) IN k > 0 /\ IsUtf8(SubSeq(b, k + 1, Len(b)))

\* parsers::parse_string: one trailing NUL is dropped, then from_utf8.
\* A String is kept as its UTF-8 bytes.
parse_string(payload) ==
    IF payload = <<>> THEN Ok(<<>>)
    ELSE LET slice == IF payload[Len(payload)] = 0
                      THEN Slice(payload, 0, Len(payload) - 1)
                      ELSE payload
         IN  IF IsUtf8(slice) THEN Ok(slice)
             ELSE Err("invalid string", 0, "", "")


(***************************************************************************)
(* controller.rs / nl80211.rs: constants.                                  *)
(***************************************************************************)
CTRL_CMD_UNSPEC == 0
CTRL_CMD_NEWFAMILY == 1
CTRL_CMD_DELFAMILY == 2
CTRL_CMD_GETFAMILY == 3
CTRL_CMD_GETMCAST_GRP == 9

CTRL_ATTR_UNSPEC == 0
CTRL_ATTR_FAMILY_ID == 1
CTRL_ATTR_FAMILY_NAME == 2
CTRL_ATTR_VERSION == 3
CTRL_ATTR_HDRSIZE == 4
CTRL_ATTR_MAXATTR == 5
CTRL_ATTR_OPS == 6
CTRL_ATTR_MCAST_GROUPS == 7

CTRL_ATTR_OP_ID == 1
CTRL_ATTR_OP_FLAGS == 2

CTRL_ATTR_MCAST_GRP_NAME == 1
CTRL_ATTR_MCAST_GRP_ID == 2

NL80211_CMD_GET_INTERFACE == 5
NL80211_ATTR_IFINDEX == 3
NL80211_ATTR_IFNAME == 4

\* The message type of the control family (message_type(), parse_with_param).
GENL_ID_CTRL == 16

(***************************************************************************)
(* impl_wrapped_attribute!: the typed attribute wrappers.                  *)
(***************************************************************************)
\* The impl_wrapped_attribute! instances: wrapped type and kind().
Wrapped ==
    [FamilyId           |-> [type |-> "u16",    kind |-> CTRL_ATTR_FAMILY_ID],
     FamilyName         |-> [type |-> "String", kind |-> CTRL_ATTR_FAMILY_NAME],
     Version            |-> [type |-> "u32",    kind |-> CTRL_ATTR_VERSION],
     HeaderSize         |-> [type |-> "u32",    kind |-> CTRL_ATTR_HDRSIZE],
     MaxAttributes      |-> [type |-> "u32",    kind |-> CTRL_ATTR_MAXATTR],
     OperationId        |-> [type |-> "u32",    kind |-> CTRL_ATTR_OP_ID],
     OperationFlags     |-> [type |-> "u32",    kind |-> CTRL_ATTR_OP_FLAGS],
     MulticastGroupId   |-> [type |-> "u32",    kind |-> CTRL_ATTR_MCAST_GRP_ID],
     MulticastGroupName |-> [type |-> "String", kind |-> CTRL_ATTR_MCAST_GRP_NAME],
     InterfaceIndex     |-> [type |-> "u32",    kind |-> NL80211_ATTR_IFINDEX],
     InterfaceName      |-> [type |-> "String", kind |-> NL80211_ATTR_IFNAME]]

WrapperNames == DOMAIN Wrapped

\* std::mem::size_of_val of the wrapped integer.
SizeOf(type) == IF type = "u16" THEN 2 ELSE 4

\* Nla::value_len (@length arms)
value_len(w, v) == IF Wrapped[w].type = "String" THEN Len(v) ELSE SizeOf(Wrapped[w].type)

\* Nla::kind
kind(w) == Wrapped[w].kind

\* Mutant of emit_value: the integer is written in network (big-endian)
\* byte order whatever the target.
emit_value_network_order(w, v) ==
    IF Wrapped[w].type = "String" THEN v
    ELSE IF Wrapped[w].type = "u16" THEN Reverse(Digits(v, 2))
    ELSE Reverse(v)

\* Nla::emit_value (@emit arms): the bytes written into the value slice.
emit_value(w, v) ==
    IF Wrapped[w].type = "String" THEN v
    ELSE IF Wrapped[w].type = "u16" THEN write_u16(v)
    ELSE write_u32(v)

\* Emitable::buffer_len of a wrapper
WrappedBufferLen(w, v) == NlaBufferLen(value_len(w, v))

\* Emitable::emit of a wrapper
WrappedEmit(w, v, buf) == NlaEmit(kind(w), emit_value(w, v), buf)

\* Parseable<NlaBuffer>::parse of a wrapper (@parse arms) over buffer.value()
WrappedParse(w, nla) ==
    LET value == nla_value(nla)
    IN  IF ~IsOk(value) THEN Panic
        ELSE IF Wrapped[w].type = "u16" THEN parse_u16(value.val)
        ELSE IF Wrapped[w].type = "u32" THEN parse_u32(value.val)
        ELSE parse_string(value.val)

(***************************************************************************)
(* impl_nested_attribute_parse!: the record parser.                        *)
(***************************************************************************)
F(k, kindName, field, type) ==
    [kind |-> k, kindName |-> kindName, field |-> field, type |-> type]

\* The impl_nested_attribute_parse! instances, arms in declaration order.
Mapping ==
    [Operation |->
        <<F(CTRL_ATTR_OP_ID, "CTRL_ATTR_OP_ID", "id", "OperationId"),
          F(CTRL_ATTR_OP_FLAGS, "CTRL_ATTR_OP_FLAGS", "flags", "OperationFlags")>>,
     MulticastGroup |->
        <<F(CTRL_ATTR_MCAST_GRP_NAME, "CTRL_ATTR_MCAST_GRP_NAME", "name", "MulticastGroupName"),
          F(CTRL_ATTR_MCAST_GRP_ID, "CTRL_ATTR_MCAST_GRP_ID", "id", "MulticastGroupId")>>,
     NewFamily |->
        <<F(CTRL_ATTR_FAMILY_NAME, "CTRL_ATTR_FAMILY_NAME", "name", "FamilyName"),
          F(CTRL_ATTR_FAMILY_ID, "CTRL_ATTR_FAMILY_ID", "id", "FamilyId"),
          F(CTRL_ATTR_VERSION, "CTRL_ATTR_VERSION", "version", "Version"),
          F(CTRL_ATTR_HDRSIZE, "CTRL_ATTR_HDRSIZE", "header_size", "HeaderSize"),
          F(CTRL_ATTR_MAXATTR, "CTRL_ATTR_MAXATTR", "max_attributes", "MaxAttributes"),
          F(CTRL_ATTR_OPS, "CTRL_ATTR_OPS", "operations", "OperationList"),
          F(CTRL_ATTR_MCAST_GROUPS, "CTRL_ATTR_MCAST_GROUPS", "multicast_groups",
            "MulticastGroupList")>>]

Records == DOMAIN Mapping

Kinds(r) == {Mapping[r][i].kind : i \in DOMAIN Mapping[r]}
Fields(r) == {Mapping[r][i].field : i \in DOMAIN Mapping[r]}
ArmOf(r, k) == CHOOSE i \in DOMAIN Mapping[r] : Mapping[r][i].kind = k

RECURSIVE Parse(_, _)
RECURSIVE ParseLoop(_, _, _, _)
RECURSIVE TypedParse(_, _)
RECURSIVE Collect(_, _, _, _)
RECURSIVE ParseLoopSkipUnknown(_, _, _, _)
RECURSIVE ParseLoopKeepFirst(_, _, _, _)
RECURSIVE ParseLoopPositional(_, _, _, _)
RECURSIVE CollectPrepend(_, _, _, _)

\* Mutant of Finish: an unset slot takes the field's Default (the records
\* derive Default) instead of failing the parse.
FinishWithDefault(r, slots) ==
    Ok([f \in Fields(r) |-> IF slots[f].some THEN slots[f].val ELSE <<>>])

\* The struct literal after the loop: the first unset slot in declaration
\* order is the error, else the record.
Finish(r, slots) ==
    LET unset == {i \in DOMAIN Mapping[r] : ~slots[Mapping[r][i].field].some}
    IN  IF unset # {}
        THEN LET first == CHOOSE i \in unset : \A j \in unset : i <= j
             IN  Err("missing attribute", 0, Mapping[r][first].kindName, r)
        ELSE Ok([f \in Fields(r) |-> slots[f].val])


\* Mutant of ParseLoop: an attribute of a kind outside the mapping is skipped.
ParseLoopSkipUnknown(r, its, i, slots) ==
    IF i > Len(its) THEN Finish(r, slots)
    ELSE IF ~IsOk(its[i]) THEN its[i]
    ELSE LET attribute == its[i].val
             k == nla_kind(attribute)
         IN  IF k \in Kinds(r)
             THEN LET arm == Mapping[r][ArmOf(r, k)]
                      parsed == TypedParse(arm.type, attribute)
                  IN  IF ~IsOk(parsed) THEN parsed
                      ELSE ParseLoopSkipUnknown(r, its, i + 1,
                                     [slots EXCEPT ![arm.field] = Some(parsed.val)])
             ELSE ParseLoopSkipUnknown(r, its, i + 1, slots)

\* Mutant of ParseLoop: a slot already set keeps its value (get_or_insert
\* in place of replace).
ParseLoopKeepFirst(r, its, i, slots) ==
    IF i > Len(its) THEN Finish(r, slots)
    ELSE IF ~IsOk(its[i]) THEN its[i]
    ELSE LET attribute == its[i].val
             k == nla_kind(attribute)
         IN  IF k \in Kinds(r)
             THEN LET arm == Mapping[r][ArmOf(r, k)]
                      parsed == TypedParse(arm.type, attribute)
                  IN  IF ~IsOk(parsed) THEN parsed
                      ELSE ParseLoopKeepFirst(r, its, i + 1,
                                     IF slots[arm.field].some THEN slots
                                     ELSE [slots EXCEPT ![arm.field] = Some(parsed.val)])
             ELSE Err("encountered unexpected kind", k, "", r)

\* Mutant of ParseLoop: the mapping is keyed by position, the i-th attribute
\* of the buffer filling the i-th field of the declaration.
ParseLoopPositional(r, its, i, slots) ==
    IF i > Len(its) THEN Finish(r, slots)
    ELSE IF ~IsOk(its[i]) THEN its[i]
    ELSE LET attribute == its[i].val
         IN  IF i <= Len(Mapping[r])
             THEN LET arm == Mapping[r][i]
                      parsed == TypedParse(arm.type, attribute)
                  IN  IF ~IsOk(parsed) THEN parsed
                      ELSE ParseLoopPositional(r, its, i + 1,
                                     [slots EXCEPT ![arm.field] = Some(parsed.val)])
             ELSE Err("encountered unexpected kind", nla_kind(attribute), "", r)

\* The `for attribute in NlasIterator::new(buffer)` loop from item i on.
ParseLoop(r, its, i, slots) ==
    IF i > Len(its) THEN Finish(r, slots)
    ELSE IF ~IsOk(its[i]) THEN its[i]
    ELSE LET attribute == its[i].val
             k == nla_kind(attribute)
         IN  IF k \in Kinds(r)
             THEN LET arm == Mapping[r][ArmOf(r, k)]
                      parsed == TypedParse(arm.type, attribute)
                  IN  IF ~IsOk(parsed) THEN parsed
                      ELSE ParseLoop(r, its, i + 1,
                                     [slots EXCEPT ![arm.field] = Some(parsed.val)])
             ELSE Err("encountered unexpected kind", k, "", r)

\* <$attr as Parseable<T>>::parse(buffer)
Parse(r, b) == ParseLoop(r, NlasIterator(b, 0), 1, [f \in Fields(r) |-> None])

\* Mutant of Collect: each record parsed is put in front of the earlier ones.
CollectPrepend(r, its, i, acc) ==
    IF i > Len(its) THEN Ok(acc)
    ELSE IF ~IsOk(its[i]) THEN its[i]
    ELSE LET value == nla_value(its[i].val)
         IN  IF ~IsOk(value) THEN Panic
             ELSE LET element == Parse(r, value.val)
                  IN  IF ~IsOk(element) THEN element
                      ELSE CollectPrepend(r, its, i + 1, <<element.val>> \o acc)

\* The map(..).collect::<Result<Vec<_>, _>>() of the list parsers: each
\* element attribute's value is parsed as one record, the first error ends it.
Collect(r, its, i, acc) ==
    IF i > Len(its) THEN Ok(acc)
    ELSE IF ~IsOk(its[i]) THEN its[i]
    ELSE LET value == nla_value(its[i].val)
         IN  IF ~IsOk(value) THEN Panic
             ELSE LET element == Parse(r, value.val)
                  IN  IF ~IsOk(element) THEN element
                      ELSE Collect(r, its, i + 1, Append(acc, element.val))

\* OperationList::parse / MulticastGroupList::parse over buffer.value()
ListParse(r, nla) ==
    LET value == nla_value(nla)
    IN  IF ~IsOk(value) THEN Panic
        ELSE Collect(r, NlasIterator(value.val, 0), 1, <<>>)

\* $type::parse(&attribute) of a match arm
TypedParse(type, nla) ==
    IF type = "OperationList" THEN ListParse("Operation", nla)
    ELSE IF type = "MulticastGroupList" THEN ListParse("MulticastGroup", nla)
    ELSE WrappedParse(type, nla)


(***************************************************************************)
(* controller.rs: ControlMessage.                                          *)
(***************************************************************************)
GENL_HDRLEN == 4

\* ControlMessage::GetFamily(name) / ControlMessage::NewFamily(family)
GetFamily(name) == [variant |-> "GetFamily", name |-> name]
NewFamily(f) == [variant |-> "NewFamily", family |-> f]

\* ControlMessage::attribute_size
attribute_size(msg) ==
    IF msg.variant = "NewFamily"
    THEN WrappedBufferLen("FamilyId", msg.family.id)
         + WrappedBufferLen("FamilyName", msg.family.name)
    ELSE WrappedBufferLen("FamilyName", msg.name)

\* ControlMessage::command
command(msg) ==
    IF msg.variant = "NewFamily" THEN CTRL_CMD_NEWFAMILY ELSE CTRL_CMD_GETFAMILY

\* ControlMessage::version
version(msg) == IF msg.variant = "NewFamily" THEN 2 ELSE 1

\* Mutant of emit_attributes: the NewFamily arm is implemented and emits
\* the two attributes attribute_size counts, id and name.
emit_attributes_implemented(msg, buf) ==
    IF msg.variant = "NewFamily"
    THEN LET split == WrappedBufferLen("FamilyId", msg.family.id)
         IN  IF Len(buf) < split THEN Panic
             ELSE LET id == WrappedEmit("FamilyId", msg.family.id, Slice(buf, 0, split))
                      name == WrappedEmit("FamilyName", msg.family.name,
                                          Slice(buf, split, Len(buf)))
                  IN  IF IsOk(id) /\ IsOk(name) THEN Ok(id.val \o name.val) ELSE Panic
    ELSE WrappedEmit("FamilyName", msg.name, buf)

\* ControlMessage::emit_attributes
emit_attributes(msg, buf) ==
    IF msg.variant = "NewFamily" THEN Panic
    ELSE WrappedEmit("FamilyName", msg.name, buf)

\* NetlinkSerializable::buffer_len of ControlMessage
buffer_len(msg) == GENL_HDRLEN + attribute_size(msg)

\* NetlinkSerializable::message_type of ControlMessage
message_type(msg) == GENL_ID_CTRL

\* NetlinkSerializable::serialize of ControlMessage
serialize(msg, buf) ==
    IF Len(buf) < GENL_HDRLEN THEN Panic
    ELSE LET attrs == emit_attributes(msg, Slice(buf, GENL_HDRLEN, Len(buf)))
         IN  IF ~IsOk(attrs) THEN Panic
             ELSE Ok(<<command(msg), version(msg), 0, 0>> \o attrs.val)

\* The buffer serialize leaves behind when emit_attributes aborts: the four
\* header bytes are written before the call.
serialize_aborted(msg, buf) ==
    IF Len(buf) < GENL_HDRLEN THEN buf
    ELSE Overwrite(buf, 0, <<command(msg), version(msg), 0, 0>>)

\* GenericBuffer::new_checked: the payload holds the 4-byte generic header.
GenericBufferNewChecked(payload) ==
    IF Len(payload) < GENL_HDRLEN
    THEN Err("invalid generic netlink buffer", Len(payload), "", "")
    ELSE Ok(payload)

\* GenericBuffer::command: the first byte of the payload.
GenericCommand(gb) == gb[1]

\* GenericBuffer::attributes: the payload after the generic header.
GenericAttributes(gb) == Slice(gb, GENL_HDRLEN, Len(gb))

\* Mutant of parse_with_param: every command of the control family is
\* taken for NEWFAMILY (a default arm in place of the error).
parse_with_param_default(gb, t) ==
    IF t = GENL_ID_CTRL
    THEN LET new_family == Parse("NewFamily", GenericAttributes(gb))
         IN  IF IsOk(new_family) THEN Ok(NewFamily(new_family.val)) ELSE new_family
    ELSE Err("unknown message type", t, "", "")

\* Mutant of parse_with_param: the command is dispatched on without
\* looking at the message type.
parse_with_param_any_type(gb, t) ==
    IF GenericCommand(gb) = CTRL_CMD_NEWFAMILY
    THEN LET new_family == Parse("NewFamily", GenericAttributes(gb))
         IN  IF IsOk(new_family) THEN Ok(NewFamily(new_family.val)) ELSE new_family
    ELSE Err("unsupported command", GenericCommand(gb), "", "")

\* <ControlMessage as ParseableParametrized<GenericBuffer, u16>>::parse_with_param
parse_with_param(gb, t) ==
    IF t = GENL_ID_CTRL
    THEN IF GenericCommand(gb) = CTRL_CMD_NEWFAMILY
         THEN LET new_family == Parse("NewFamily", GenericAttributes(gb))
              IN  IF IsOk(new_family) THEN Ok(NewFamily(new_family.val)) ELSE new_family
         ELSE Err("unsupported command", GenericCommand(gb), "", "")
    ELSE Err("unknown message type", t, "", "")

\* <ControlMessage as NetlinkDeserializable>::deserialize(header, payload)
deserialize(header, payload) ==
    LET generic_buffer == GenericBufferNewChecked(payload)
    IN  IF ~IsOk(generic_buffer) THEN generic_buffer
        ELSE parse_with_param(generic_buffer.val, header.message_type)

(***************************************************************************)
(* nl80211.rs: Nl80221Family, Nl80221Message, Nl80221TaggedMessage.        *)
(***************************************************************************)
\* Nl80221Message::GetInterface(index)
GetInterface(index) == [variant |-> "GetInterface", index |-> index]

\* Nl80221Family::new
Nl80221Family(f) == [family |-> f]

\* Nl80221Family::tag_message
tag_message(self, message) == [message |-> message, family_id |-> self.family.id]

\* Nl80221Message::attribute_size
nl80211_attribute_size(message) == WrappedBufferLen("InterfaceIndex", message.index)

\* Nl80221Message::command
nl80211_command(message) == NL80211_CMD_GET_INTERFACE

\* Nl80221Message::version
nl80211_version(message) == 0

\* Nl80221Message::emit_attributes
nl80211_emit_attributes(message, buf) == WrappedEmit("InterfaceIndex", message.index, buf)

\* NetlinkSerializable::buffer_len of Nl80221TaggedMessage
tagged_buffer_len(tagged) == GENL_HDRLEN + nl80211_attribute_size(tagged.message)

\* Mutant of tagged_message_type: the control family's constant is reported.
tagged_message_type_control(tagged) == GENL_ID_CTRL

\* NetlinkSerializable::message_type of Nl80221TaggedMessage
tagged_message_type(tagged) == tagged.family_id

\* NetlinkSerializable::serialize of Nl80221TaggedMessage
tagged_serialize(tagged, buf) ==
    IF Len(buf) < GENL_HDRLEN THEN Panic
    ELSE LET attrs == nl80211_emit_attributes(tagged.message, Slice(buf, GENL_HDRLEN, Len(buf)))
         IN  IF ~IsOk(attrs) THEN Panic
             ELSE Ok(<<nl80211_command(tagged.message), nl80211_version(tagged.message), 0, 0>>
                     \o attrs.val)

(***************************************************************************)
(* genl.rs: Attribute.                                                     *)
(***************************************************************************)
NLMSG_ALIGNTO == 4

\* The Attribute variants.  U32 and MilliSeconds hold their value as bytes,
\* least significant first; the strings hold their bytes.
Unspecified == [variant |-> "Unspecified"]
AttrU8(n) == [variant |-> "U8", n |-> n]
AttrU16(n) == [variant |-> "U16", n |-> n]
AttrU32(v) == [variant |-> "U32", v |-> v]
AttrFlag(flag) == [variant |-> "Flag", flag |-> flag]
MilliSeconds(v) == [variant |-> "MilliSeconds", v |-> v]
AttrString(v) == [variant |-> "String", v |-> v]
NulTerminatedString(v) == [variant |-> "NulTerminatedString", v |-> v]
Nested(attrs) == [variant |-> "Nested", attrs |-> attrs]
Custom(id, data) == [variant |-> "Custom", id |-> id, v |-> data]

\* Mutant of nl_align: the length is rounded down to the alignment.
nl_align_down(len) == (len \div NLMSG_ALIGNTO) * NLMSG_ALIGNTO

\* nl_align: (length + MASK) & !MASK
nl_align(len) == ((len + (NLMSG_ALIGNTO - 1)) \div NLMSG_ALIGNTO) * NLMSG_ALIGNTO

RECURSIVE length(_)
RECURSIVE attr_buffer_len(_)
RECURSIVE attr_list_buffer_size(_)
RECURSIVE attr_emit(_, _)
RECURSIVE EmitChildren(_, _)
RECURSIVE EmitChildrenUnpadded(_, _)

\* CString::as_bytes_with_nul
as_bytes_with_nul(v) == v \o <<0>>

\* attr_list_buffer_size: sum of nl_align(attr.buffer_len())
attr_list_buffer_size(attributes) ==
    IF attributes = <<>> THEN 0
    ELSE nl_align(attr_buffer_len(Head(attributes))) + attr_list_buffer_size(Tail(attributes))

\* Attribute::length
length(attr) ==
    CASE attr.variant = "Unspecified" -> 0
      [] attr.variant = "U8" -> 1
      [] attr.variant = "U16" -> 2
      [] attr.variant = "U32" -> 4
      [] attr.variant = "Flag" -> 1
      [] attr.variant = "MilliSeconds" -> 8
      [] attr.variant = "String" -> Len(attr.v)
      [] attr.variant = "NulTerminatedString" -> Len(as_bytes_with_nul(attr.v))
      [] attr.variant = "Nested" -> attr_list_buffer_size(attr.attrs)
      [] attr.variant = "Custom" -> Len(attr.v)

\* Attribute::type_id
type_id(attr) ==
    CASE attr.variant = "Unspecified" -> 0
      [] attr.variant = "U8" -> 1
      [] attr.variant = "U16" -> 2
      [] attr.variant = "U32" -> 3
      [] attr.variant = "Flag" -> 4
      [] attr.variant = "MilliSeconds" -> 5
      [] attr.variant = "String" -> 6
      [] attr.variant = "NulTerminatedString" -> 7
      [] attr.variant = "Nested" -> 8
      [] attr.variant = "Custom" -> attr.id

\* Attribute::header_size
header_size == 4

\* <Attribute as Emitable>::buffer_len
attr_buffer_len(attr) == header_size + nl_align(length(attr))

\* payload[..Len(bytes)] = bytes; panics when the payload is shorter.
WritePayload(payload, bytes) ==
    IF Len(payload) < Len(bytes) THEN Panic ELSE Ok(Overwrite(payload, 0, bytes))

\* Mutant of EmitChildren: the payload is split after each child's header
\* and value, without the padding.
EmitChildrenUnpadded(attrs, next_payload) ==
    IF attrs = <<>> THEN Ok(next_payload)
    ELSE LET len == header_size + length(Head(attrs))
         IN  IF len > Len(next_payload) THEN Panic
             ELSE LET cur == attr_emit(Head(attrs), Slice(next_payload, 0, len))
                      next == EmitChildrenUnpadded(Tail(attrs),
                                                   Slice(next_payload, len, Len(next_payload)))
                  IN  IF IsOk(cur) /\ IsOk(next) THEN Ok(cur.val \o next.val) ELSE Panic

\* The Nested arm of emit: each child gets the next nl_align(buffer_len)
\* bytes of the payload (split_at_mut) and is emitted into them.
EmitChildren(attrs, next_payload) ==
    IF attrs = <<>> THEN Ok(next_payload)
    ELSE LET len == nl_align(attr_buffer_len(Head(attrs)))
         IN  IF len > Len(next_payload) THEN Panic
             ELSE LET cur == attr_emit(Head(attrs), Slice(next_payload, 0, len))
                      next == EmitChildren(Tail(attrs), Slice(next_payload, len, Len(next_payload)))
                  IN  IF IsOk(cur) /\ IsOk(next) THEN Ok(cur.val \o next.val) ELSE Panic

\* <Attribute as Emitable>::emit(buffer): the buffer afterwards, or a panic.
attr_emit(attr, buf) ==
    IF Len(buf) < header_size THEN Panic
    ELSE LET payload == Slice(buf, header_size, Len(buf))
             body ==
                CASE attr.variant = "Unspecified" -> Ok(payload)
                  [] attr.variant = "U8" -> WritePayload(payload, <<attr.n>>)
                  [] attr.variant = "U16" -> WritePayload(payload, write_u16(attr.n))
                  [] attr.variant = "U32" -> WritePayload(payload, write_u32(attr.v))
                  [] attr.variant = "Flag" -> WritePayload(payload, <<IF attr.flag THEN 1 ELSE 0>>)
                  [] attr.variant = "MilliSeconds" -> WritePayload(payload, write_u32(attr.v))
                  [] attr.variant = "String" -> WritePayload(payload, attr.v)
                  [] attr.variant = "NulTerminatedString" ->
                        WritePayload(payload, as_bytes_with_nul(attr.v))
                  [] attr.variant = "Nested" -> EmitChildren(attr.attrs, payload)
                  [] attr.variant = "Custom" -> WritePayload(payload, attr.v)
         IN  IF ~IsOk(body) THEN Panic
             ELSE Ok(write_u16(attr_buffer_len(attr) % U16Range)
                     \o write_u16(type_id(attr))
                     \o body.val)

(***************************************************************************)
(* genl.rs: Generic, ControlMessage, GenericMessage.                       *)
(***************************************************************************)
\* genl.rs ControlMessage::GetFamily(family)
genl_GetFamily(name) == [variant |-> "GetFamily", family |-> name]

\* <ControlMessage as Generic>::command
genl_command(generic) == CTRL_CMD_GETFAMILY

\* Generic::version (the trait's default, which ControlMessage keeps)
genl_version(generic) == 1

\* <ControlMessage as Generic>::family_id
genl_family_id(generic) == GENL_ID_CTRL

\* <ControlMessage as Generic>::attributes
genl_attributes(generic) == <<AttrString(generic.family)>>

\* <GenericMessage as From<G: Generic>>::from
GenericMessageFrom(generic) ==
    [command |-> genl_command(generic),
     version |-> genl_version(generic),
     message_type |-> genl_family_id(generic),
     attributes |-> genl_attributes(generic)]

\* GenericMessage::attribute_size
generic_attribute_size(self) == attr_list_buffer_size(self.attributes)

\* <GenericMessage as Emitable>::buffer_len (header_size() is 4 here too)
generic_buffer_len(self) == header_size + generic_attribute_size(self)

\* The loop of GenericMessage::emit: each attribute gets the next
\* buffer_len() bytes of the payload (split_at_mut) and is emitted into them;
\* what is left of the payload is not written.
RECURSIVE EmitAttributes(_, _)
EmitAttributes(attrs, payload) ==
    IF attrs = <<>> THEN Ok(payload)
    ELSE LET len == attr_buffer_len(Head(attrs))
         IN  IF len > Len(payload) THEN Panic
             ELSE LET cur == attr_emit(Head(attrs), Slice(payload, 0, len))
                      next == EmitAttributes(Tail(attrs), Slice(payload, len, Len(payload)))
                  IN  IF IsOk(cur) /\ IsOk(next) THEN Ok(cur.val \o next.val) ELSE Panic

\* <GenericMessage as Emitable>::emit
generic_emit(self, buf) ==
    IF Len(buf) < header_size THEN Panic
    ELSE LET attrs == EmitAttributes(self.attributes, Slice(buf, header_size, Len(buf)))
         IN  IF ~IsOk(attrs) THEN Panic
             ELSE Ok(<<self.command, self.version, 0, 0>> \o attrs.val)

\* NetlinkSerializable::message_type of GenericMessage
generic_message_type(self) == self.message_type

\* NetlinkSerializable::serialize of GenericMessage
generic_serialize(self, buf) == generic_emit(self, buf)

(***************************************************************************)
(* main.rs: StreetpassService and StreetpassTag over bytes::Buf / BufMut.  *)
(* A Buf is the bytes that remain; a BufMut is the bytes put so far and    *)
(* the room left (remaining_mut).  Integers go out and come in big-endian  *)
(* (put_u32 / get_u32 / put_u64 / get_u64).                                *)
(***************************************************************************)
\* BufMut::put_u8 / put_u32 / put_u64 of the given bytes: panics when the
\* room is short, with nothing written.
put(buf, bytes) ==
    IF buf.room < Len(bytes) THEN Panic
    ELSE Ok([out |-> buf.out \o bytes, room |-> buf.room - Len(bytes)])

\* <StreetpassService as Parseable>::parse: the service and the bytes left.
service_parse(buf) ==
    IF Len(buf) >= 5
    THEN Ok([service |-> [id |-> Reverse(SubSeq(buf, 1, 4)), flags |-> buf[5]],
             rest |-> SubSeq(buf, 6, Len(buf))])
    ELSE Err("buffer to short to parse StreetpassService", Len(buf), "", "")

\* <StreetpassService as Emitable>::emit: the outcome and the BufMut after.
service_emit(self, buf) ==
    IF buf.room >= 5
    THEN [ret |-> Ok("emitted"), buf |-> put(put(buf, Reverse(self.id)).val, <<self.flags>>).val]
    ELSE [ret |-> Err("not enough space in buffer to emit StreetpassService", buf.room, "", ""),
          buf |-> buf]

\* <StreetpassTag as Parseable>::parse
tag_parse(bytes) ==
    LET RECURSIVE Services(_, _)
        \* while tag_data.has_remaining() { services.push(parse(&mut tag_data)?) }
        Services(tag_data, services) ==
            IF tag_data = <<>> THEN Ok(services)
            ELSE LET parsed == service_parse(tag_data)
                 IN  IF ~IsOk(parsed) THEN parsed
                     ELSE Services(parsed.val.rest, Append(services, parsed.val.service))
        RECURSIVE Loop(_, _, _)
        \* while buffer.remaining() >= 2 { .. } and the struct literal after it
        Loop(buf, services, console_id) ==
            IF Len(buf) >= 2
            THEN LET id == buf[1]
                     len == buf[2]
                     inner == SubSeq(buf, 3, Len(buf))
                     limit == IF len < Len(inner) THEN len ELSE Len(inner)
                     tag_data == SubSeq(inner, 1, limit)
                     \* discard_remaining(tag_data): the inner Buf past the limit
                     next == SubSeq(inner, limit + 1, Len(inner))
                 IN  IF id = 17
                     THEN LET list == Services(tag_data, <<>>)
                          IN  IF ~IsOk(list) THEN list
                              ELSE Loop(next, Some(list.val), console_id)
                     ELSE IF id = 240 /\ Len(tag_data) = 8
                     THEN Loop(next, services, Some(Reverse(tag_data)))
                     ELSE Loop(next, services, console_id)
            ELSE IF ~console_id.some
            THEN Err("Streetpass tag did not contain a console ID", 0, "", "")
            ELSE Ok([services |-> IF services.some THEN services.val ELSE <<>>,
                     console_id |-> console_id.val])
    IN  Loop(bytes, None, None)

\* <StreetpassTag as Emitable>::emit: the outcome and the BufMut after.
tag_emit(self, buffer0) ==
    LET RECURSIVE Services(_, _)
        \* for service in self.services.iter() { service.emit(&mut buffer)?; }
        Services(i, buf) ==
            IF i > Len(self.services) THEN [ret |-> Ok("emitted"), buf |-> buf]
            ELSE LET one == service_emit(self.services[i], buf)
                 IN  IF ~IsOk(one.ret) THEN one ELSE Services(i + 1, one.buf)
        \* the puts that cannot fail the >= 12 check but can run out of room
        Put(buf, bytes) ==
            IF ~IsOk(buf.ret) THEN buf
            ELSE LET done == put(buf.buf, bytes)
                 IN  IF IsOk(done) THEN [ret |-> buf.ret, buf |-> done.val]
                     ELSE [ret |-> Panic, buf |-> buf.buf]
    IN  IF buffer0.room >= 4 + 8
        THEN LET tagged == Put([ret |-> Ok("emitted"), buf |-> buffer0], <<17>>)
             IN  IF Len(self.services) >= ByteRange
                 THEN [ret |-> Err("Too many services attached to StreetpassTag",
                                   Len(self.services), "", ""),
                       buf |-> tagged.buf]
                 ELSE LET counted == Put(tagged, <<Len(self.services)>>)
                          listed == Services(1, counted.buf)
                      IN  Put(Put(Put(listed, <<240>>), <<8>>), Reverse(self.console_id))
        ELSE [ret |-> Err("Not enough space in buffer to emit StreetpassTag",
                          buffer0.room, "", ""),
              buf |-> buffer0]

(***************************************************************************)
(* Record parsing harness: a buffer of sibling attributes is laid out the  *)
(* way the peer would write it, then handed to <record>::parse.            *)
(***************************************************************************)
MaxExtra == 2

\* One attribute on the wire: header, value, padding to the alignment.
Tlv(k, value) == NlaEmit(k, value, Repeat(0, NlaBufferLen(Len(value)))).val

\* The same without the trailing padding (last attribute of a buffer).
TlvUnpadded(k, value) == SubSeq(Tlv(k, value), 1, NLA_HEADER_SIZE + Len(value))

Nl80211Name == <<110, 108, 56, 48, 50, 49, 49>>
NlctrlName == <<110, 108, 99, 116, 114, 108>>

OperationBytes(op) ==
    Tlv(CTRL_ATTR_OP_ID, write_u32(op.id)) \o Tlv(CTRL_ATTR_OP_FLAGS, write_u32(op.flags))

GroupBytes(g) ==
    Tlv(CTRL_ATTR_MCAST_GRP_NAME, g.name \o <<0>>) \o Tlv(CTRL_ATTR_MCAST_GRP_ID, write_u32(g.id))

\* The value of a container attribute: element i wrapped in an attribute of kind i.
ListBytes(elements) == Concat([i \in 1 .. Len(elements) |-> Tlv(i, elements[i])])

\* A choice of attribute: the value meant (sem), its bytes, and whether the
\* bytes are a well-formed value of the type the record maps the kind to.
Choice(k, sem, value, good) == [kind |-> k, sem |-> sem, value |-> value, good |-> good]

\* Values of a field type: primary (1), alternate (2), ill-formed (3).
ChoiceOf(type, k, n) ==
    IF type = "OperationList"
    THEN CASE n = 1 -> Choice(k, <<>>, <<>>, TRUE)
           [] n = 2 -> LET op == [id |-> U32(1), flags |-> U32(11)]
                       IN  Choice(k, <<op>>, ListBytes(<<OperationBytes(op)>>), TRUE)
           [] n = 3 -> Choice(k, <<>>,
                              ListBytes(<<Tlv(CTRL_ATTR_OP_ID, write_u32(U32(1)))>>), FALSE)
    ELSE IF type = "MulticastGroupList"
    THEN CASE n = 1 -> Choice(k, <<>>, <<>>, TRUE)
           [] n = 2 -> LET g == [id |-> U32(2), name |-> NlctrlName]
                       IN  Choice(k, <<g>>, ListBytes(<<GroupBytes(g)>>), TRUE)
           [] n = 3 -> Choice(k, <<>>, ListBytes(<<<<1, 2>>>>), FALSE)
    ELSE IF Wrapped[type].type = "String"
    THEN CASE n = 1 -> Choice(k, Nl80211Name, Nl80211Name, TRUE)
           [] n = 2 -> Choice(k, NlctrlName, NlctrlName \o <<0>>, TRUE)
           [] n = 3 -> Choice(k, <<>>, <<110, 255>>, FALSE)
    ELSE IF Wrapped[type].type = "u16"
    THEN CASE n = 1 -> Choice(k, 16 + k, write_u16(16 + k), TRUE)
           [] n = 2 -> Choice(k, U16Range - k, write_u16(U16Range - k), TRUE)
           [] n = 3 -> Choice(k, 0, <<1, 2, 3, 4>>, FALSE)
    ELSE CASE n = 1 -> Choice(k, U32(16 + k), write_u32(U32(16 + k)), TRUE)
           [] n = 2 -> Choice(k, U32Max, write_u32(U32Max), TRUE)
           [] n = 3 -> Choice(k, U32(0), <<1, 2>>, FALSE)

\* Kinds outside the mapping of r: 0 and the first one after the last arm.
UnknownKinds(r) == {CTRL_ATTR_UNSPEC, Len(Mapping[r]) + 1}

Primary(r, arm) == ChoiceOf(Mapping[r][arm].type, Mapping[r][arm].kind, 1)

\* What may be laid out besides the record's own attributes: a second value
\* or an ill-formed value for a mapped kind, or an attribute of another kind.
Extras(r) ==
    {ChoiceOf(Mapping[r][a].type, Mapping[r][a].kind, n) : a \in DOMAIN Mapping[r], n \in {2, 3}}
    \cup {Choice(k, U32(1), write_u32(U32(1)), TRUE) : k \in UnknownKinds(r)}

Layouts(n) ==
    {p \in [1 .. n -> 1 .. n] : \A i, j \in 1 .. n : p[i] = p[j] => i = j}

\* Layout orders tried: every order of the record's attributes.
Orders(r) == Layouts(Len(Mapping[r]))

\* Declaration order and its reverse: the orders in which attributes are
\* also left out, added or cut short.
Mirrored(r) ==
    LET n == Len(Mapping[r])
    IN  {[i \in 1 .. n |-> i], [i \in 1 .. n |-> n + 1 - i]}

Own(its) == {i \in DOMAIN its : its[i].own}
Extra(its) == {i \in DOMAIN its : ~its[i].own}

Item(c, own) == [kind |-> c.kind, sem |-> c.sem, value |-> c.value, good |-> c.good, own |-> own]

\* Trailing fragments: fewer bytes than a header, a header declaring more
\* than follows it, a string attribute ending the buffer without padding.
TailBytes(r, t) ==
    CASE t = "short" -> <<8, 0, 1>>
      [] t = "overlong" -> write_u16(8) \o write_u16(Mapping[r][1].kind) \o <<1, 0, 0>>
      [] t = "unpadded" -> TlvUnpadded(Mapping[r][1].kind, Nl80211Name)

InitCommon ==
    /\ bigEndian \in BOOLEAN
    /\ result = None
    /\ state = "Unresolved"
    /\ family = None
    /\ inbox = None
    /\ accepted = None
    /\ received = 0
    /\ sent = <<>>

InitRecord ==
    /\ InitCommon
    /\ pc = "build"
    /\ rec \in Records
    /\ order \in Orders(rec)
    /\ cursor = 1
    /\ items = <<>>
    /\ tail = "none"
    /\ buffer = <<>>
    /\ subject = None

Building == pc = "build" /\ tail = "none"
Perturbing == Building /\ order \in Mirrored(rec)

SessionVars == <<state, family, inbox, accepted, received, sent>>

\* The record's attribute at the cursor is laid out.
AppendField ==
    /\ Building
    /\ cursor <= Len(order)
    /\ LET c == Primary(rec, order[cursor])
       IN  /\ items' = Append(items, Item(c, TRUE))
           /\ buffer' = buffer \o Tlv(c.kind, c.value)
    /\ cursor' = cursor + 1
    /\ UNCHANGED <<bigEndian, pc, result, rec, order, tail, subject>>
    /\ UNCHANGED SessionVars

\* The record's attribute at the cursor is left out (one at most of NewFamily).
SkipField ==
    /\ Perturbing
    /\ cursor <= Len(order)
    /\ rec = "NewFamily" => Cardinality(Own(items)) = cursor - 1
    /\ cursor' = cursor + 1
    /\ UNCHANGED <<bigEndian, pc, buffer, result, rec, order, items, tail, subject>>
    /\ UNCHANGED SessionVars

\* Another attribute is laid out at this position (one at most of NewFamily).
AppendExtra ==
    /\ Perturbing
    /\ Cardinality(Extra(items)) < MaxExtra
    /\ rec = "NewFamily" => Extra(items) = {}
    /\ \E c \in Extras(rec) :
        /\ items' = Append(items, Item(c, FALSE))
        /\ buffer' = buffer \o Tlv(c.kind, c.value)
    /\ UNCHANGED <<bigEndian, pc, result, rec, order, cursor, tail, subject>>
    /\ UNCHANGED SessionVars

\* The buffer ends in a fragment.
AppendTail ==
    /\ Perturbing
    /\ \E t \in {"short", "overlong", "unpadded"} :
        /\ t = "unpadded" => Wrapped[Mapping[rec][1].type].type = "String"
        /\ tail' = t
        /\ buffer' = buffer \o TailBytes(rec, t)
        /\ items' = IF t = "unpadded"
                    THEN Append(items, Item(Primary(rec, 1), FALSE))
                    ELSE items
    /\ UNCHANGED <<bigEndian, pc, result, rec, order, cursor, subject>>
    /\ UNCHANGED SessionVars

\* <record>::parse(&buffer)
ParseRecord ==
    /\ pc = "build"
    /\ pc' = "parsed"
    /\ result' = Parse(rec, buffer)
    /\ UNCHANGED <<bigEndian, buffer, rec, order, cursor, items, tail, subject>>
    /\ UNCHANGED SessionVars

NextRecord == AppendField \/ SkipField \/ AppendExtra \/ AppendTail \/ ParseRecord

SpecRecord == InitRecord /\ [][NextRecord]_vars


(***************************************************************************)
(* Properties of record parsing (SpecRecord).                              *)
(***************************************************************************)
Parsed == pc = "parsed"

Known(i) == items[i].kind \in Kinds(rec)
\* Item i is an attribute of a mapped kind whose value is well-formed.
Sound(i) == Known(i) /\ items[i].good
UnknownAt == {i \in DOMAIN items : ~Known(i)}
Occurrences(k) == {i \in DOMAIN items : items[i].kind = k}
MissingKinds == {k \in Kinds(rec) : Occurrences(k) = {}}
First(S) == CHOOSE i \in S : \A j \in S : i <= j
Last(S) == CHOOSE i \in S : \A j \in S : j <= i
\* The buffer is the attributes alone (the last one possibly unpadded).
Whole == tail \in {"none", "unpadded"}

C4_MissingFieldNamed ==
    (/\ Parsed
     /\ Whole
     /\ \A i \in DOMAIN items : Sound(i)
     /\ Cardinality(MissingKinds) = 1) =>
        LET k == CHOOSE m \in MissingKinds : TRUE
        IN  result = Err("missing attribute", 0, Mapping[rec][ArmOf(rec, k)].kindName, rec)

\* C4 happens: NewFamily without its operation list, all else in place.
C4_Witness ==
    /\ Parsed
    /\ Whole
    /\ rec = "NewFamily"
    /\ \A i \in DOMAIN items : Sound(i)
    /\ MissingKinds = {CTRL_ATTR_OPS}
    /\ IsErr(result)
    /\ result.name = "CTRL_ATTR_OPS"

\* C5 as stated: parse returns Ok only if every mapped kind occurs exactly
\* once in the buffer.
C5_ExactlyOnce ==
    (Parsed /\ IsOk(result)) =>
        \A k \in Kinds(rec) : Cardinality(Occurrences(k)) = 1

\* C5 amended: parse returns Ok only if every mapped kind occurs at least
\* once, and each field holds the value of the last attribute of its kind.
C5_LastOccurrenceWins ==
    (Parsed /\ IsOk(result)) =>
        \A a \in DOMAIN Mapping[rec] :
            LET occ == Occurrences(Mapping[rec][a].kind)
            IN  /\ occ # {}
                /\ result.val[Mapping[rec][a].field] = items[Last(occ)].sem

\* C5 happens: a record is returned from a buffer holding two attributes
\* of one kind with different values.
C5_Witness ==
    /\ Parsed
    /\ IsOk(result)
    /\ \E k \in Kinds(rec) :
        /\ Cardinality(Occurrences(k)) = 2
        /\ items[First(Occurrences(k))].sem # items[Last(Occurrences(k))].sem

\* The buffer is shorter than an attribute header, or its last attribute
\* declares more bytes than remain.
Truncated == Len(buffer) < NLA_HEADER_SIZE \/ tail = "overlong"

\* C6 as stated: such a buffer always ends in the truncation error.
C6_TruncationError == (Parsed /\ Truncated) => IsTruncation(result)

\* C6 amended: such a buffer never yields a record and is never read out
\* of bounds; parsing ends in a decode error, which is the truncation error
\* when the buffer is not empty and nothing before the truncated attribute
\* fails first, and the missing-attribute error when the buffer is empty.
C6_TruncatedNeverParses ==
    (Parsed /\ Truncated) =>
        /\ IsErr(result)
        /\ (buffer # <<>> /\ \A i \in DOMAIN items : Sound(i)) => IsTruncation(result)
        /\ buffer = <<>> => result.class = "missing attribute"

\* C6 happens: well-formed attributes followed by one that declares more
\* bytes than remain.
C6_Witness ==
    /\ Parsed
    /\ tail = "overlong"
    /\ items # <<>>
    /\ \A i \in DOMAIN items : Sound(i)
    /\ IsTruncation(result)

\* The buffer holds the record's own attributes and nothing else, every
\* mapped kind once, in the order of `order`.
EachOnce ==
    /\ tail = "none"
    /\ Len(items) = Len(order)
    /\ \A i \in DOMAIN items : items[i] = Item(Primary(rec, order[i]), TRUE)

\* C12: the record parsed from a buffer holding each mapped kind once does
\* not depend on the order of the attributes: under every permutation it is
\* the record of the attributes' values, field by field.
C12_OrderIrrelevant ==
    (Parsed /\ EachOnce) =>
        result = Ok([f \in Fields(rec) |->
                        LET a == CHOOSE i \in DOMAIN Mapping[rec] : Mapping[rec][i].field = f
                        IN  Primary(rec, a).sem])

\* C12 happens: NewFamily was parsed from its seven attributes laid out in
\* an order that is neither the declared one nor its reverse.
C12_Witness ==
    /\ Parsed
    /\ EachOnce
    /\ rec = "NewFamily"
    /\ order = <<3, 7, 1, 5, 2, 6, 4>>
    /\ IsOk(result)
    /\ result.val.id = 16 + CTRL_ATTR_FAMILY_ID

\* Item i is an attribute of a kind mapped to a fixed-width wrapper whose
\* value is not of the wrapper's width.
WrongWidth(i) ==
    /\ Known(i)
    /\ LET type == Mapping[rec][ArmOf(rec, items[i].kind)].type
       IN  /\ type \in WrapperNames
           /\ Wrapped[type].type # "String"
           /\ Len(items[i].value) # SizeOf(Wrapped[type].type)

\* C16: when the first attribute of a record buffer that is not well-formed
\* is a fixed-width one of the wrong value length, the record parse fails
\* with a decode error that names that attribute, by the name of its kind
\* or of its wrapper.
C16_WrongWidthNamed ==
    (/\ Parsed
     /\ \E i \in DOMAIN items : ~Sound(i)
     /\ WrongWidth(First({i \in DOMAIN items : ~Sound(i)}))) =>
        LET arm == Mapping[rec][ArmOf(rec, items[First({i \in DOMAIN items : ~Sound(i)})].kind)]
        IN  /\ IsErr(result)
            /\ result.name \in {arm.kindName, arm.type}


(***************************************************************************)
(* List parsing harness: the records of a list are encoded as the peer     *)
(* writes them, one element attribute each inside a container attribute,   *)
(* and the container is handed to OperationList / MulticastGroupList       *)
(* ::parse.                                                                *)
(***************************************************************************)
MaxElements == 5

InitList ==
    /\ InitCommon
    /\ pc = "list"
    /\ rec \in {"Operation", "MulticastGroup"}
    /\ order = <<>>
    /\ cursor = 1
    /\ items = <<>>
    /\ tail = "none"
    /\ buffer = <<>>
    /\ subject = None

\* One more record joins the list.
AppendElement ==
    /\ pc = "list"
    /\ Len(items) < MaxElements
    /\ \E id \in {U32(1), U32Max} :
        items' = Append(items,
                        IF rec = "Operation"
                        THEN [id |-> id, flags |-> Reverse(id)]
                        ELSE [id |-> id, name |-> IF id = U32Max THEN <<>> ELSE NlctrlName])
    /\ UNCHANGED <<bigEndian, pc, buffer, result, rec, order, cursor, tail, subject>>
    /\ UNCHANGED SessionVars

\* The list is encoded into its container attribute, which is checked as
\* an attribute buffer and parsed as a list.
ParseList ==
    /\ pc = "list"
    /\ LET elements == [i \in DOMAIN items |->
                            IF rec = "Operation" THEN OperationBytes(items[i])
                            ELSE GroupBytes(items[i])]
           container == Tlv(IF rec = "Operation" THEN CTRL_ATTR_OPS
                            ELSE CTRL_ATTR_MCAST_GROUPS,
                            ListBytes(elements))
           nla == NlaBufferNewChecked(container)
       IN  /\ buffer' = container
           /\ result' = IF IsOk(nla) THEN ListParse(rec, nla.val) ELSE nla
    /\ pc' = "listed"
    /\ UNCHANGED <<bigEndian, rec, order, cursor, items, tail, subject>>
    /\ UNCHANGED SessionVars

NextList == AppendElement \/ ParseList

SpecList == InitList /\ [][NextList]_vars

(***************************************************************************)
(* Properties of list parsing (SpecList).                                  *)
(***************************************************************************)
\* C13: a container of N element attributes, each wrapping the attributes
\* of one record, parses to the list of exactly those N records in wire
\* order, for N = 0 .. MaxElements; the container of no records declares
\* length 4, is accepted and parses to the empty list.
C13_ListRoundTrip ==
    pc = "listed" =>
        /\ result = Ok(items)
        /\ items = <<>> =>
            /\ Len(buffer) = NLA_HEADER_SIZE
            /\ nla_length(buffer) = NLA_HEADER_SIZE
            /\ result = Ok(<<>>)

\* C13 happens: a multicast group list of five records, not all alike, was
\* parsed back.
C13_Witness ==
    /\ pc = "listed"
    /\ rec = "MulticastGroup"
    /\ Len(items) = 5
    /\ items[1] # items[5]
    /\ IsOk(result)
    /\ Len(result.val) = 5
    /\ result.val[5].name = NlctrlName


(***************************************************************************)
(* Family resolution: the caller sends GetFamily, hands every received     *)
(* datagram to ControlMessage::deserialize until the stream is drained,    *)
(* builds Nl80221Family from the NewFamily it got, and then tags and sends *)
(* subsystem requests.                                                     *)
(***************************************************************************)
MaxReceived == 2
MaxSent == 2

\* Family ids the control channel may report.
FamilyIds == {GENL_ID_CTRL, 19, U16Range - 1}

\* Interface indexes asked for.
InterfaceIndexes == {U32(0), U32(13), U32Max}

\* The attributes of a NewFamily response in the order the kernel writes
\* them: id, name (NUL-terminated), version 1, header size 0, max attributes
\* 0, no operations, no multicast groups.
NewFamilyAttributes(id) ==
    <<Tlv(CTRL_ATTR_FAMILY_ID, write_u16(id)),
      Tlv(CTRL_ATTR_FAMILY_NAME, Nl80211Name \o <<0>>),
      Tlv(CTRL_ATTR_VERSION, write_u32(U32(1))),
      Tlv(CTRL_ATTR_HDRSIZE, write_u32(U32(0))),
      Tlv(CTRL_ATTR_MAXATTR, write_u32(U32(0))),
      Tlv(CTRL_ATTR_OPS, <<>>),
      Tlv(CTRL_ATTR_MCAST_GROUPS, <<>>)>>

\* Bodies of a response by shape.
Body(shape, id) ==
    LET attrs == NewFamilyAttributes(id)
    IN  CASE shape = "good" -> Concat(attrs)
          [] shape = "missing" -> Concat(SubSeq(attrs, 1, Len(attrs) - 1))
          [] shape = "unknown" -> Concat(attrs) \o Tlv(Len(attrs) + 1, <<>>)
          [] shape = "truncated" -> Concat(attrs) \o TailBytes("NewFamily", "overlong")
          [] shape = "empty" -> <<>>

Shapes == {"good", "missing", "unknown", "truncated", "empty"}

\* The datagrams the socket may deliver: any message type and command over
\* any body, and one shorter than the generic header.
Responses ==
    {[message_type |-> t, shape |-> sh, id |-> id,
      payload |-> <<c, 2, 0, 0>> \o Body(sh, id)] :
        t \in FamilyIds \ {U16Range - 1},
        c \in {CTRL_CMD_UNSPEC, CTRL_CMD_NEWFAMILY, CTRL_CMD_DELFAMILY,
               CTRL_CMD_GETFAMILY, CTRL_CMD_GETMCAST_GRP},
        sh \in Shapes,
        id \in FamilyIds}
    \cup {[message_type |-> GENL_ID_CTRL, shape |-> "headerless", id |-> 19,
           payload |-> <<CTRL_CMD_NEWFAMILY, 2>>]}

Init ==
    /\ InitCommon
    /\ pc = "start"
    /\ buffer = <<>>
    /\ rec = "NewFamily"
    /\ order = <<>>
    /\ cursor = 1
    /\ items = <<>>
    /\ tail = "none"
    /\ subject = None

HarnessVars == <<rec, order, cursor, items, tail, subject>>

\* The caller serializes GetFamily("nl80211") into a buffer of buffer_len()
\* bytes and sends it to the control family.
SendGetFamily ==
    /\ pc = "start"
    /\ LET msg == GetFamily(Nl80211Name)
           out == serialize(msg, Repeat(0, buffer_len(msg)))
       IN  /\ IsOk(out)
           /\ buffer' = out.val
           /\ sent' = Append(sent, [request |-> "GetFamily", index |-> U32(0),
                                    message_type |-> message_type(msg),
                                    payload |-> out.val])
    /\ pc' = "drain"
    /\ UNCHANGED <<bigEndian, result, state, family, inbox, accepted, received>>
    /\ UNCHANGED HarnessVars

\* A datagram is received and deserialized; the first NewFamily obtained
\* becomes the caller's Nl80221Family.
Receive ==
    /\ pc = "drain"
    /\ received < MaxReceived
    /\ \E r \in Responses :
        LET got == deserialize([message_type |-> r.message_type], r.payload)
        IN  /\ inbox' = Some(r)
            /\ buffer' = r.payload
            /\ result' = got
            /\ IF IsOk(got) /\ got.val.variant = "NewFamily" /\ state = "Unresolved"
               THEN /\ state' = "Resolved"
                    /\ family' = Some(Nl80221Family(got.val.family))
                    /\ accepted' = Some(r)
               ELSE UNCHANGED <<state, family, accepted>>
    /\ received' = received + 1
    /\ UNCHANGED <<bigEndian, pc, sent>>
    /\ UNCHANGED HarnessVars

\* A zero-length receive ends the exchange; without a family the session
\* has failed (no retry).
EndOfStream ==
    /\ pc = "drain"
    /\ pc' = IF state = "Resolved" THEN "resolved" ELSE "failed"
    /\ UNCHANGED <<bigEndian, buffer, result, state, family, inbox, accepted, received, sent>>
    /\ UNCHANGED HarnessVars

\* The caller tags GetInterface(index) with its family and serializes it
\* into a buffer of buffer_len() bytes.
SendGetInterface ==
    /\ pc = "resolved"
    /\ family.some
    /\ Len(sent) < MaxSent
    /\ \E index \in InterfaceIndexes :
        LET tagged == tag_message(family.val, GetInterface(index))
            out == tagged_serialize(tagged, Repeat(0, tagged_buffer_len(tagged)))
        IN  /\ IsOk(out)
            /\ buffer' = out.val
            /\ sent' = Append(sent, [request |-> "GetInterface", index |-> index,
                                     message_type |-> tagged_message_type(tagged),
                                     payload |-> out.val])
    /\ UNCHANGED <<bigEndian, pc, result, state, family, inbox, accepted, received>>
    /\ UNCHANGED HarnessVars

Next == SendGetFamily \/ Receive \/ EndOfStream \/ SendGetInterface

Spec == Init /\ [][Next]_vars

(***************************************************************************)
(* Properties of family resolution (Spec).                                 *)
(***************************************************************************)
Tagged == {i \in DOMAIN sent : sent[i].request = "GetInterface"}

\* C1: the state is Resolved exactly when the caller holds an
\* Nl80221Family, and it got there only through a response of message type
\* 0x10 and command NEWFAMILY whose body holds every attribute of NewFamily
\* and nothing else, the family holding the id of that response; as long as
\* every response was malformed, of another type or command, or absent, the
\* state is Unresolved, there is no family and no request has been tagged.
C1_ResolvedOnlyByNewFamily ==
    /\ state \in {"Unresolved", "Resolved"}
    /\ (state = "Resolved") = family.some
    /\ (state = "Resolved") = accepted.some
    /\ accepted.some =>
        /\ accepted.val.message_type = GENL_ID_CTRL
        /\ accepted.val.payload[1] = CTRL_CMD_NEWFAMILY
        /\ accepted.val.shape = "good"
        /\ family.val.family.id = accepted.val.id
    /\ state = "Unresolved" => Tagged = {}

\* C1 happens: every response of the exchange was a NEWFAMILY of the
\* control family with a malformed body, and the session ended unresolved.
C1_Witness ==
    /\ pc = "failed"
    /\ received = MaxReceived
    /\ inbox.some
    /\ inbox.val.message_type = GENL_ID_CTRL
    /\ inbox.val.payload[1] = CTRL_CMD_NEWFAMILY
    /\ inbox.val.shape = "missing"
    /\ state = "Unresolved"
    /\ ~family.some

\* C2: every tagged request carries the id of the resolved family as its
\* message type, and GetInterface(i) is serialized as command 5, version 0,
\* two reserved zero bytes and one attribute of length 8 and kind 3 whose
\* four value bytes are i in native byte order.
C2_TaggedWithFamilyId ==
    \A n \in Tagged :
        LET p == sent[n].payload
        IN  /\ accepted.some
            /\ sent[n].message_type = accepted.val.id
            /\ Len(p) = 12
            /\ p[1] = NL80211_CMD_GET_INTERFACE
            /\ p[2] = 0 /\ p[3] = 0 /\ p[4] = 0
            /\ SubSeq(p, 5, 6) = (IF bigEndian THEN <<0, 8>> ELSE <<8, 0>>)
            /\ SubSeq(p, 7, 8) = (IF bigEndian THEN <<0, NL80211_ATTR_IFINDEX>>
                                  ELSE <<NL80211_ATTR_IFINDEX, 0>>)
            /\ SubSeq(p, 9, 12) = (IF bigEndian THEN Reverse(sent[n].index) ELSE sent[n].index)

\* C2 happens: the family resolved to id 0x13 and GetInterface(13) was
\* tagged and serialized.
C2_Witness ==
    /\ accepted.some
    /\ accepted.val.id = 19
    /\ \E n \in Tagged :
        /\ sent[n].index = <<13, 0, 0, 0>>
        /\ sent[n].message_type = 19

\* C7: deserializing a payload that holds a generic header yields a variant
\* only for message type 0x10 and command NEWFAMILY; any other message type
\* is the unknown-message-type error carrying the type, any other command
\* under 0x10 the unsupported-command error carrying the command.
C7_DispatchOrError ==
    (inbox.some /\ Len(inbox.val.payload) >= GENL_HDRLEN) =>
        LET t == inbox.val.message_type
            c == inbox.val.payload[1]
        IN  /\ ~IsPanic(result)
            /\ IsOk(result) =>
                /\ t = GENL_ID_CTRL
                /\ c = CTRL_CMD_NEWFAMILY
                /\ result.val.variant = "NewFamily"
            /\ t # GENL_ID_CTRL => result = Err("unknown message type", t, "", "")
            /\ (t = GENL_ID_CTRL /\ c # CTRL_CMD_NEWFAMILY) =>
                result = Err("unsupported command", c, "", "")

\* C7 happens: a well-formed NEWFAMILY body arrives under the resolved
\* family id 0x13 and is refused with that number.
C7_Witness ==
    /\ inbox.some
    /\ inbox.val.message_type = 19
    /\ inbox.val.payload[1] = CTRL_CMD_NEWFAMILY
    /\ inbox.val.shape = "good"
    /\ state = "Resolved"
    /\ IsErr(result)
    /\ result.class = "unknown message type"
    /\ result.num = 19


(***************************************************************************)
(* Emission harness: an attribute is chosen, a buffer of buffer_len()      *)
(* bytes is handed to emit, and a typed wrapper is parsed back from it.    *)
(***************************************************************************)
MaxStrLen == 8
MaxChildren == 2

\* Bytes a string of the harness is cut from.
Text == <<110, 108, 56, 48, 50, 49, 49, 46, 99, 116, 114, 108>>
Strings == {SubSeq(Text, 1, n) : n \in 0 .. MaxStrLen}

U16Values == {0, 1, 19, ByteRange - 1, ByteRange, 513, U16Range - 1}
U32Values == {U32(0), U32(13), <<1, 2, 3, 4>>, <<0, 0, 0, 128>>, <<0, 255, 0, 1>>, U32Max}

WrapperValues(w) ==
    IF Wrapped[w].type = "u16" THEN U16Values
    ELSE IF Wrapped[w].type = "u32" THEN U32Values
    ELSE {<<>>, Nl80211Name}

Leaves ==
    {Unspecified, AttrU8(7), AttrU16(513), AttrU32(<<1, 2, 3, 4>>), AttrFlag(TRUE),
     AttrFlag(FALSE), MilliSeconds(<<1, 2, 3, 4, 5, 6, 7, 8>>)}
    \cup {AttrString(v) : v \in Strings}
    \cup {NulTerminatedString(v) : v \in Strings}
    \cup {Custom(9, v) : v \in Strings}

\* Children of the nested attributes tried.
SmallLeaves == {Unspecified, AttrU8(7), AttrU32(<<1, 2, 3, 4>>), AttrString(SubSeq(Text, 1, 5))}

SeqsUpTo(S, n) == UNION {[1 .. k -> S] : k \in 0 .. n}

NestedOnce == {Nested(c) : c \in SeqsUpTo(SmallLeaves, MaxChildren)}

NestedTwice ==
    {Nested(c) : c \in SeqsUpTo({AttrU8(7), Nested(<<>>), Nested(<<AttrU8(7)>>),
                                 Nested(<<AttrString(SubSeq(Text, 1, 5)), Unspecified>>)},
                                MaxChildren)}

\* Attribute lists of the messages tried: leaves and nested attributes down
\* to three levels.
MessageAttributes ==
    SeqsUpTo(SmallLeaves
             \cup {Nested(<<>>),
                   Nested(<<AttrU8(7), AttrString(SubSeq(Text, 1, 5))>>),
                   Nested(<<Nested(<<AttrU8(7)>>), Unspecified>>)},
             MaxChildren)

\* NewFamily values handed to serialize.
Families ==
    {[id |-> i, name |-> n, version |-> U32(1), header_size |-> U32(0),
      max_attributes |-> U32(0), operations |-> <<>>, multicast_groups |-> <<>>] :
        i \in {GENL_ID_CTRL, 19}, n \in {<<>>, Nl80211Name}}

WrapperSubject(w, v) == [api |-> "wrapper", name |-> w, value |-> v]
GenlSubject(a) == [api |-> "genl", attr |-> a]
\* A controller.rs ControlMessage.
ControlSubject(msg) == [api |-> "control", msg |-> msg]
\* A genl.rs GenericMessage; request is the family name when the message
\* was converted from ControlMessage::GetFamily.
MessageSubject(msg, request) == [api |-> "generic", msg |-> msg, request |-> request]

\* Emitable::buffer_len of the subject
SubjectBufferLen(sub) ==
    IF sub.api = "wrapper" THEN WrappedBufferLen(sub.name, sub.value)
    ELSE IF sub.api = "control" THEN buffer_len(sub.msg)
    ELSE IF sub.api = "generic" THEN generic_buffer_len(sub.msg)
    ELSE attr_buffer_len(sub.attr)

\* Emitable::emit / NetlinkSerializable::serialize of the subject
SubjectEmit(sub, buf) ==
    IF sub.api = "wrapper" THEN WrappedEmit(sub.name, sub.value, buf)
    ELSE IF sub.api = "control" THEN serialize(sub.msg, buf)
    ELSE IF sub.api = "generic" THEN generic_serialize(sub.msg, buf)
    ELSE attr_emit(sub.attr, buf)

InitAttr ==
    /\ InitCommon
    /\ pc = "chosen"
    /\ \/ \E w \in WrapperNames : \E v \in WrapperValues(w) : subject = WrapperSubject(w, v)
       \/ \E a \in Leaves \cup NestedOnce \cup NestedTwice : subject = GenlSubject(a)
       \/ \E n \in Strings : subject = ControlSubject(GetFamily(n))
       \/ \E f \in Families : subject = ControlSubject(NewFamily(f))
       \/ \E n \in Strings :
            subject = MessageSubject(GenericMessageFrom(genl_GetFamily(n)), Some(n))
       \/ \E attrs \in MessageAttributes :
            subject = MessageSubject([command |-> NL80211_CMD_GET_INTERFACE, version |-> 0,
                                      message_type |-> 19, attributes |-> attrs], None)
    /\ buffer = <<>>
    /\ rec = "NewFamily"
    /\ order = <<>>
    /\ cursor = 1
    /\ items = <<>>
    /\ tail = "none"

\* The caller allocates buffer_len() bytes, zeroed or holding old data.
Allocate ==
    /\ pc = "chosen"
    /\ \E fill \in {0, ByteRange - 1} : buffer' = Repeat(fill, SubjectBufferLen(subject))
    /\ pc' = "allocated"
    /\ UNCHANGED <<bigEndian, result, rec, order, cursor, items, tail, subject>>
    /\ UNCHANGED SessionVars

\* subject.emit(&mut buffer)
Emit ==
    /\ pc = "allocated"
    /\ LET out == SubjectEmit(subject, buffer)
       IN  /\ result' = IF IsOk(out) THEN Ok("emitted") ELSE out
           /\ buffer' = IF IsOk(out) THEN out.val
                        ELSE IF subject.api = "control"
                        THEN serialize_aborted(subject.msg, buffer)
                        ELSE buffer
    /\ pc' = "emitted"
    /\ UNCHANGED <<bigEndian, rec, order, cursor, items, tail, subject>>
    /\ UNCHANGED SessionVars

\* The emitted buffer is iterated as an attribute list and its first
\* attribute parsed as the wrapper that wrote it.
ParseBack ==
    /\ pc = "emitted"
    /\ subject.api = "wrapper"
    /\ IsOk(result)
    /\ LET its == NlasIterator(buffer, 0)
       IN  /\ its # <<>>
           /\ result' = IF IsOk(its[1])
                        THEN [tag |-> "Parsed", kind |-> nla_kind(its[1].val),
                              count |-> Len(its),
                              parsed |-> WrappedParse(subject.name, its[1].val)]
                        ELSE its[1]
    /\ pc' = "parsed"
    /\ UNCHANGED <<bigEndian, buffer, rec, order, cursor, items, tail, subject>>
    /\ UNCHANGED SessionVars

NextAttr == Allocate \/ Emit \/ ParseBack

SpecAttr == InitAttr /\ [][NextAttr]_vars

(***************************************************************************)
(* Properties of emission (SpecAttr).                                      *)
(***************************************************************************)
FixedWidth(sub) == sub.api = "wrapper" /\ Wrapped[sub.name].type # "String"

\* C8: a fixed-width wrapper emitted into buffer_len() bytes and parsed
\* back gives the value it held, under the wrapper's own kind, whatever the
\* buffer held before and on either byte order.
C8_FixedWidthRoundTrip ==
    (pc = "parsed" /\ FixedWidth(subject)) =>
        /\ result.tag = "Parsed"
        /\ result.count = 1
        /\ result.kind = Wrapped[subject.name].kind
        /\ result.parsed = Ok(subject.value)
        /\ Len(buffer) = 8

\* C8 happens: InterfaceIndex(0xFFFFFFFF) went through emit and parse.
C8_Witness ==
    /\ pc = "parsed"
    /\ subject.api = "wrapper"
    /\ subject.name = "InterfaceIndex"
    /\ subject.value = U32Max
    /\ result.tag = "Parsed"
    /\ IsOk(result.parsed)

\* Bytes on the wire of a list of attributes, each taking its buffer_len().
RECURSIVE SumOfBufferLens(_)
SumOfBufferLens(attrs) ==
    IF attrs = <<>> THEN 0 ELSE attr_buffer_len(Head(attrs)) + SumOfBufferLens(Tail(attrs))

\* Value length of an attribute that is not Nested, read off its variant.
LeafLength(attr) ==
    CASE attr.variant \in {"String", "Custom"} -> Len(attr.v)
      [] attr.variant = "NulTerminatedString" -> Len(attr.v) + 1
      [] attr.variant \in {"U8", "Flag"} -> 1
      [] attr.variant = "U16" -> 2
      [] attr.variant = "U32" -> 4
      [] attr.variant = "MilliSeconds" -> 8
      [] attr.variant = "Unspecified" -> 0

ExactSizes == <<8, 8, 8, 8, 12, 12, 12, 12>>

\* C9: buffer_len() of an attribute of value length L is the smallest
\* multiple of 4 that is >= 4 + L (4 for L = 0; 8, 8, 8, 8, 12, .., 12 for
\* L = 1 .. 8), the value length of a Nested attribute is the sum of its
\* children's buffer_len(), and emit fills a buffer of that size.
C9_BufferLenAligned ==
    subject.api = "genl" =>
        LET a == subject.attr
            L == IF a.variant = "Nested" THEN SumOfBufferLens(a.attrs) ELSE LeafLength(a)
            b == attr_buffer_len(a)
        IN  /\ b % 4 = 0
            /\ b >= 4 + L
            /\ b - 4 < 4 + L
            /\ (a.variant # "Nested" /\ L = 0) => b = 4
            /\ (a.variant # "Nested" /\ L \in DOMAIN ExactSizes) => b = ExactSizes[L]
            /\ length(a) = L
            /\ pc = "emitted" => (IsOk(result) /\ Len(buffer) = b)

\* C9 happens: a 5-byte string was emitted into its 12 bytes.
C9_Witness ==
    /\ pc = "emitted"
    /\ subject.api = "genl"
    /\ subject.attr.variant = "String"
    /\ Len(subject.attr.v) = 5
    /\ Len(buffer) = 12
    /\ IsOk(result)

\* C10: the length field Attribute::emit writes is 4 plus the unpadded
\* value length.
C10_LengthFieldUnpadded ==
    (pc = "emitted" /\ subject.api = "genl" /\ IsOk(result)) =>
        Number(IF bigEndian THEN Reverse(SubSeq(buffer, 1, 2)) ELSE SubSeq(buffer, 1, 2))
            = 4 + length(subject.attr)


(***************************************************************************)
(* Properties of message serialization (SpecAttr).                         *)
(***************************************************************************)
\* The subject is a GetFamily request of controller.rs or of genl.rs.
IsGetFamily(sub) ==
    \/ sub.api = "control" /\ sub.msg.variant = "GetFamily"
    \/ sub.api = "generic" /\ sub.request.some

\* The family name a GetFamily request asks for.
RequestedName(sub) == IF sub.api = "control" THEN sub.msg.name ELSE sub.request.val

\* The outer message type the subject reports.
ReportedType(sub) ==
    IF sub.api = "control" THEN message_type(sub.msg) ELSE generic_message_type(sub.msg)

\* C11: a serialized GetFamily(name) is command 3, the version byte, two
\* zero bytes and then, from offset 4, exactly one attribute of kind
\* CTRL_ATTR_FAMILY_NAME (2) whose value is the bytes of name, under message
\* type 0x10, on the controller.rs path and on the genl.rs path alike.
C11_GetFamilyRequest ==
    (pc = "emitted" /\ IsGetFamily(subject)) =>
        /\ IsOk(result)
        /\ Len(buffer) >= GENL_HDRLEN
        /\ SubSeq(buffer, 1, GENL_HDRLEN) = <<CTRL_CMD_GETFAMILY, 1, 0, 0>>
        /\ ReportedType(subject) = GENL_ID_CTRL
        /\ LET its == NlasIterator(Slice(buffer, GENL_HDRLEN, Len(buffer)), 0)
           IN  /\ Len(its) = 1
               /\ IsOk(its[1])
               /\ nla_kind(its[1].val) = CTRL_ATTR_FAMILY_NAME
               /\ nla_value(its[1].val) = Ok(RequestedName(subject))


\* C14: serializing ControlMessage::NewFamily aborts for every NewFamily
\* value: the outcome is a panic, not a DecodeError, and no byte of the
\* attribute region is written; serializing GetFamily(name) into
\* buffer_len() bytes completes and fills the buffer.
C14_NewFamilyAborts ==
    (pc = "emitted" /\ subject.api = "control") =>
        /\ Len(buffer) = buffer_len(subject.msg)
        /\ IF subject.msg.variant = "NewFamily"
           THEN /\ IsPanic(result)
                /\ ~IsErr(result)
                /\ \E fill \in {0, ByteRange - 1} :
                    Slice(buffer, GENL_HDRLEN, Len(buffer))
                        = Repeat(fill, Len(buffer) - GENL_HDRLEN)
           ELSE /\ IsOk(result)
                /\ Slice(buffer, GENL_HDRLEN, Len(buffer))
                        = Tlv(CTRL_ATTR_FAMILY_NAME, subject.msg.name)

\* C14 happens: NewFamily("nl80211", id 19) was handed to serialize, which
\* wrote the generic header over old data and aborted.
C14_Witness ==
    /\ pc = "emitted"
    /\ subject.api = "control"
    /\ subject.msg.variant = "NewFamily"
    /\ subject.msg.family.name = Nl80211Name
    /\ subject.msg.family.id = 19
    /\ IsPanic(result)
    /\ buffer[1] = CTRL_CMD_NEWFAMILY
    /\ buffer[Len(buffer)] = ByteRange - 1


\* The value bytes of an attribute that is not Nested.
LeafValue(attr) ==
    CASE attr.variant = "Unspecified" -> <<>>
      [] attr.variant = "U8" -> <<attr.n>>
      [] attr.variant = "U16" -> IF bigEndian THEN <<attr.n \div ByteRange, attr.n % ByteRange>>
                                 ELSE <<attr.n % ByteRange, attr.n \div ByteRange>>
      [] attr.variant = "Flag" -> <<IF attr.flag THEN 1 ELSE 0>>
      [] attr.variant = "NulTerminatedString" -> attr.v \o <<0>>
      [] attr.variant \in {"String", "Custom"} -> attr.v
      [] attr.variant \in {"U32", "MilliSeconds"} ->
            IF bigEndian THEN Reverse(attr.v) ELSE attr.v

\* The attributes attrs lie in bytes[from .. to): each starts at a multiple
\* of 4 with a header carrying its type id, takes the bytes its length
\* field declares (rounded up to 4), holds its value or, recursively, its
\* children, and is followed at once by the next; the last ends at to.
RECURSIVE Laid(_, _, _, _)
Laid(attrs, bytes, from, to) ==
    IF attrs = <<>> THEN from = to
    ELSE /\ from % 4 = 0
         /\ from + 4 <= to
         /\ LET a == Head(attrs)
                declared == Number(IF bigEndian THEN Reverse(SubSeq(bytes, from + 1, from + 2))
                                   ELSE SubSeq(bytes, from + 1, from + 2))
                tag == Number(IF bigEndian THEN Reverse(SubSeq(bytes, from + 3, from + 4))
                              ELSE SubSeq(bytes, from + 3, from + 4))
                size == ((declared + 3) \div 4) * 4
            IN  /\ tag = type_id(a)
                /\ size >= 4
                /\ from + size <= to
                /\ IF a.variant = "Nested"
                   THEN Laid(a.attrs, bytes, from + 4, from + size)
                   ELSE /\ 4 + Len(LeafValue(a)) <= size
                        /\ size < 4 + Len(LeafValue(a)) + 4
                        /\ SubSeq(bytes, from + 5, from + 4 + Len(LeafValue(a))) = LeafValue(a)
                /\ Laid(Tail(attrs), bytes, from + size, to)

\* The subject is a GenericMessage or a Nested attribute.
HasChildren(sub) ==
    \/ sub.api = "generic"
    \/ sub.api = "genl" /\ sub.attr.variant = "Nested"

Children(sub) == IF sub.api = "generic" THEN sub.msg.attributes ELSE sub.attr.attrs

\* C15: emitting a GenericMessage or a Nested attribute into buffer_len()
\* bytes never splits or writes past the end, and leaves every child in its
\* own slice: the slices start at multiples of 4, follow one another
\* without gap or overlap from offset 4 to the end of the buffer, nested
\* children likewise inside their parent's slice, and their sizes add up to
\* the value size the parent declares.
C15_ChildrenLaidOut ==
    (pc = "emitted" /\ HasChildren(subject)) =>
        /\ IsOk(result)
        /\ Len(buffer) = 4 + SumOfBufferLens(Children(subject))
        /\ subject.api = "genl" => length(subject.attr) = SumOfBufferLens(Children(subject))
        /\ subject.api = "generic" =>
                generic_attribute_size(subject.msg) = SumOfBufferLens(Children(subject))
        /\ Laid(Children(subject), buffer, 4, Len(buffer))

\* C15 happens: a message of two attributes, the first nested three levels
\* deep, was emitted over old data.
C15_Witness ==
    /\ pc = "emitted"
    /\ subject.api = "generic"
    /\ subject.msg.attributes
         = <<Nested(<<Nested(<<AttrU8(7)>>), Unspecified>>), AttrString(SubSeq(Text, 1, 5))>>
    /\ IsOk(result)
    /\ Len(buffer) = 36
    /\ buffer[Len(buffer)] = ByteRange - 1


(***************************************************************************)
(* Streetpass tag harness: a StreetpassTag is emitted into a BufMut of     *)
(* some capacity and the bytes written are parsed back.                    *)
(***************************************************************************)
MaxServices == 3

InitTag ==
    /\ InitCommon
    /\ pc = "tag"
    /\ \E services \in SeqsUpTo({[id |-> <<1, 2, 3, 4>>, flags |-> 0],
                                 [id |-> U32Max, flags |-> 128]}, MaxServices) :
       \E console_id \in {<<1, 2, 3, 4, 5, 6, 7, 8>>, U32(0) \o U32Max} :
            subject = [api |-> "tag",
                       tag |-> [services |-> services, console_id |-> console_id]]
    /\ buffer = <<>>
    /\ rec = "NewFamily"
    /\ order = <<>>
    /\ cursor = 0
    /\ items = <<>>
    /\ tail = "none"

\* tag.emit(&mut buffer) into an empty BufMut with `cursor` bytes of room:
\* too little for the tag, just the 12 bytes emit asks for, exactly the
\* bytes of the tag, or plenty.
TagEmit ==
    /\ pc = "tag"
    /\ \E room \in {8, 12, 12 + 5 * Len(subject.tag.services), 64} :
        LET done == tag_emit(subject.tag, [out |-> <<>>, room |-> room])
        IN  /\ cursor' = room
            /\ buffer' = done.buf.out
            /\ result' = done.ret
    /\ pc' = "tag_emitted"
    /\ UNCHANGED <<bigEndian, rec, order, items, tail, subject>>
    /\ UNCHANGED SessionVars

\* StreetpassTag::parse(&buffer[..]) of the bytes emit wrote.
TagParse ==
    /\ pc = "tag_emitted"
    /\ IsOk(result)
    /\ result' = tag_parse(buffer)
    /\ pc' = "tag_parsed"
    /\ UNCHANGED <<bigEndian, buffer, rec, order, cursor, items, tail, subject>>
    /\ UNCHANGED SessionVars

NextTag == TagEmit \/ TagParse

SpecTag == InitTag /\ [][NextTag]_vars

(***************************************************************************)
(* Properties of the Streetpass tag (SpecTag).                             *)
(***************************************************************************)
\* The BufMut had room for the whole tag: 2 + 5 per service + 10.
Roomy == cursor >= 12 + 5 * Len(subject.tag.services)

\* C17: with room for the whole tag, emit returns Ok, the length byte after
\* 0x11 is the number of bytes of service data that follow it, and parse of
\* the bytes written returns the same console id and the same services.
C17_TagRoundTrip ==
    /\ (pc = "tag_emitted" /\ Roomy) =>
        /\ IsOk(result)
        /\ buffer[1] = 17
        /\ buffer[2] = 5 * Len(subject.tag.services)
    /\ (pc = "tag_parsed" /\ Roomy) => result = Ok(subject.tag)


====
